---- MODULE Spec2Model ----
(***************************************************************************)
(* Model of notebooks/embeddings/embedding-search.ipynb: the pickle-backed *)
(* embedding cache (embedding_from_string) and the brute-force cosine      *)
(* ranking with the top-k walk (print_recommendations_from_strings).       *)
(*                                                                         *)
(* Two specifications share the module.  Spec runs the cache cell across   *)
(* kernel restarts, with the store file on disk surviving them.  SpecRank  *)
(* draws the inputs of print_recommendations_from_strings and applies the  *)
(* ranking functions to them.                                              *)
(***************************************************************************)
EXTENDS Integers, Sequences, FiniteSets

VARIABLES
    proc,             \* the kernel and its cache cell: "down", "up" (the cell ran),
                      \* "read_failed" or "write_failed" (the cell raised there)
    cache_file,       \* contents of embedding_cache_path on disk
    embedding_cache,  \* the module-level dict of the running kernel
    calls,            \* history, over all sessions: per key, the get_embedding calls
                      \* made (invoked) and those that returned a vector (returned)
    session,          \* history of the running kernel (what it loaded, what it computed)
    last,             \* the latest embedding_from_string call of the session and its outcome
    prev,             \* the call before it: its outcome, key and value
    ended,            \* history: the cache of the latest session that ended
    strings,          \* print_recommendations_from_strings: the corpus
    embeddings,       \* the embeddings of the corpus, line 295
    index_of_source_string,
    k_nearest_neighbors,
    pc,               \* position in print_recommendations_from_strings
    distances,        \* line 299
    indices_of_nearest_neighbors,   \* line 301, the value returned
    printed           \* the indices printed by the walk, in order

cacheVars == <<proc, cache_file, embedding_cache, calls, session, last, prev, ended>>
rankVars == <<strings, embeddings, index_of_source_string, k_nearest_neighbors,
              pc, distances, indices_of_nearest_neighbors, printed>>
vars == <<cacheVars, rankVars>>

(***************************************************************************)
(* Bounds                                                                  *)
(***************************************************************************)
\* get_embedding invocations that the cache specification follows, all keys together
MaxCalls == 3
\* longest corpus of the ranking specification
MaxStrings == 3
\* largest k_nearest_neighbors of the ranking specification
MaxK == 3

Texts == {"A", "B"}
Models == {"text-embedding-ada-002", "other-model"}
\* The (string, model) pairs the cache specification asks for: two texts
\* under the default model, one of them under a second model too.
Keys == {key \in Texts \X Models : key[1] = "A" \/ key[2] = "text-embedding-ada-002"}

\* Embeddings with an integral Euclidean norm: on these the float64
\* arithmetic of numpy (dot, norm, product, quotient, comparison) is exact.
Vectors == {<<0, 0>>, <<1, 0>>, <<2, 0>>, <<0, 1>>, <<-1, 0>>, <<3, 4>>}
\* What the provider returns in the cache specification.
ProviderVectors == {<<1, 0>>, <<0, 1>>}

(***************************************************************************)
(* The embedding cache                                                     *)
(***************************************************************************)
EmptyDict == [key \in {} |-> <<0, 0>>]

\* The store file: absent, a pickled dict, or bytes that do not unpickle.
Missing == [st |-> "missing", dict |-> EmptyDict]
Corrupt == [st |-> "corrupt", dict |-> EmptyDict]

\* pickle.dump(embedding_cache, embedding_cache_file) that completes
DumpNothing(cache) == [st |-> "ok", dict |-> EmptyDict]
Dump(cache) == [st |-> "ok", dict |-> cache]

\* (string, model) not in embedding_cache.keys(), negated
InCacheNever(key, cache) == FALSE
InCache(key, cache) == key \in DOMAIN cache

\* embedding_cache[(string, model)] = <vector>
Store(cache, key, vector) ==
    [x \in DOMAIN cache \cup {key} |-> IF x = key THEN vector ELSE cache[x]]

\* The dict of the session after the assignment of line 224 when the write
\* of lines 225-226 raises.
CacheRolledBack(cache, key, vector) == cache
CacheAfterFailedWrite(cache, key, vector) == Store(cache, key, vector)

NoKey == <<"", "">>
NoCall == [outcome |-> "none", key |-> NoKey, value |-> <<0, 0>>, ext |-> 0,
           before |-> EmptyDict]
\* what prev keeps of a call
Brief(call) == [outcome |-> call.outcome, key |-> call.key, value |-> call.value,
                ext |-> call.ext]
Zero == [key \in Keys |-> 0]
NoCalls == [invoked |-> Zero, returned |-> Zero]
NewSession(loaded) ==
    [loaded |-> loaded, invoked |-> Zero, returned |-> Zero, write_failed |-> FALSE]
NoSession == NewSession(EmptyDict)
NoEnded == [clean |-> FALSE, dict |-> EmptyDict]

Bump(f, key) == [f EXCEPT ![key] = @ + 1]

RECURSIVE Sum(_, _)
Sum(f, S) == IF S = {} THEN 0
             ELSE LET x == CHOOSE y \in S : TRUE IN f[x] + Sum(f, S \ {x})
\* The bound of the model: the provider can still be asked.
MayInvoke == Sum(calls.invoked, Keys) < MaxCalls

InitCache ==
    /\ proc = "down"
    /\ cache_file = Missing
    /\ embedding_cache = EmptyDict
    /\ calls = NoCalls
    /\ session = NoSession
    /\ last = NoCall
    /\ prev = Brief(NoCall)
    /\ ended = NoEnded

\* pd.read_pickle(embedding_cache_path) guarded by except FileNotFoundError
ReadRaises == cache_file.st = "corrupt"
Loaded == IF cache_file.st = "missing" THEN EmptyDict ELSE cache_file.dict

\* The cache cell runs to its end: load, save a copy, define the function.
StartupOk ==
    /\ proc = "down"
    /\ ~ReadRaises
    /\ embedding_cache' = Loaded
    /\ cache_file' = Dump(Loaded)
    /\ proc' = "up"
    /\ session' = NewSession(Loaded)
    /\ UNCHANGED rankVars
    /\ UNCHANGED <<calls, last, prev, ended>>

\* read_pickle raises something other than FileNotFoundError: the cell stops.
StartupReadFails ==
    /\ proc = "down"
    /\ ReadRaises
    /\ proc' = "read_failed"
    /\ UNCHANGED rankVars
    /\ UNCHANGED <<cache_file, embedding_cache, calls, session, last, prev, ended>>

\* The copy of lines 214-215 is not written: open() raises (file untouched)
\* or the dump stops after open() truncated the file.
StartupWriteFails ==
    /\ proc = "down"
    /\ ~ReadRaises
    /\ embedding_cache' = Loaded
    /\ \/ cache_file' = cache_file
       \/ cache_file' = Corrupt
    /\ proc' = "write_failed"
    /\ UNCHANGED rankVars
    /\ UNCHANGED <<calls, session, last, prev, ended>>

\* The kernel stops or is restarted: the dict is gone, the file stays.
Restart ==
    /\ proc \in {"up", "read_failed", "write_failed"}
    /\ proc' = "down"
    /\ embedding_cache' = EmptyDict
    /\ ended' = IF proc = "up"
                THEN [clean |-> ~session.write_failed, dict |-> embedding_cache]
                ELSE ended
    /\ session' = NoSession
    /\ last' = NoCall
    /\ prev' = Brief(NoCall)
    /\ UNCHANGED rankVars
    /\ UNCHANGED <<cache_file, calls>>

\* embedding_from_string, key already cached: line 227 only.
CallHit(key) ==
    /\ proc = "up"
    /\ InCache(key, embedding_cache)
    /\ last' = [outcome |-> "returned", key |-> key, value |-> embedding_cache[key],
                ext |-> 0, before |-> embedding_cache]
    /\ prev' = Brief(last)
    /\ UNCHANGED rankVars
    /\ UNCHANGED <<proc, cache_file, embedding_cache, calls, session, ended>>

\* Miss, and get_embedding raises: nothing is assigned, nothing written.
CallEmbeddingFails(key) ==
    /\ proc = "up"
    /\ ~InCache(key, embedding_cache)
    /\ MayInvoke
    /\ calls' = [calls EXCEPT !.invoked = Bump(@, key)]
    /\ session' = [session EXCEPT !.invoked = Bump(@, key)]
    /\ last' = [outcome |-> "EmbeddingError", key |-> key, value |-> <<0, 0>>,
                ext |-> 1, before |-> embedding_cache]
    /\ prev' = Brief(last)
    /\ UNCHANGED rankVars
    /\ UNCHANGED <<proc, cache_file, embedding_cache, ended>>

\* Miss, get_embedding returns vector, the file is rewritten, line 227 returns.
CallMiss(key, vector) ==
    /\ proc = "up"
    /\ ~InCache(key, embedding_cache)
    /\ MayInvoke
    /\ calls' = [calls EXCEPT !.invoked = Bump(@, key), !.returned = Bump(@, key)]
    /\ session' = [session EXCEPT !.invoked = Bump(@, key), !.returned = Bump(@, key)]
    /\ embedding_cache' = Store(embedding_cache, key, vector)
    /\ cache_file' = Dump(embedding_cache')
    /\ last' = [outcome |-> "returned", key |-> key, value |-> embedding_cache'[key],
                ext |-> 1, before |-> embedding_cache]
    /\ prev' = Brief(last)
    /\ UNCHANGED rankVars
    /\ UNCHANGED <<proc, ended>>

\* Miss, get_embedding returns vector, and the write of lines 225-226 raises:
\* at open() (file untouched) or inside the dump (file truncated).
CallWriteFails(key, vector) ==
    /\ proc = "up"
    /\ ~InCache(key, embedding_cache)
    /\ MayInvoke
    /\ calls' = [calls EXCEPT !.invoked = Bump(@, key), !.returned = Bump(@, key)]
    /\ session' = [session EXCEPT !.invoked = Bump(@, key), !.returned = Bump(@, key),
                                  !.write_failed = TRUE]
    /\ embedding_cache' = CacheAfterFailedWrite(embedding_cache, key, vector)
    /\ \/ cache_file' = cache_file
       \/ cache_file' = Corrupt
    /\ last' = [outcome |-> "CachePersistenceError", key |-> key, value |-> vector,
                ext |-> 1, before |-> embedding_cache]
    /\ prev' = Brief(last)
    /\ UNCHANGED rankVars
    /\ UNCHANGED <<proc, ended>>

Next ==
    \/ StartupOk
    \/ StartupReadFails
    \/ StartupWriteFails
    \/ Restart
    \/ \E key \in Keys : CallHit(key)
    \/ \E key \in Keys : CallEmbeddingFails(key)
    \/ \E key \in Keys, vector \in ProviderVectors : CallMiss(key, vector)
    \/ \E key \in Keys, vector \in ProviderVectors : CallWriteFails(key, vector)

(***************************************************************************)
(* The similarity ranker                                                   *)
(*                                                                         *)
(* Python lists are functions on 0 .. n-1 (strings, embeddings, distances) *)
(* so that indices are the program's; a list of indices is a sequence.     *)
(***************************************************************************)
Range(n) == 0 .. (n - 1)
Length(list) == Cardinality(DOMAIN list)

\* np.dot on two lists of floats
Dot(a, b) == a[1] * b[1] + a[2] * b[2]
\* np.linalg.norm: the square root, exact on Vectors
Norm(v) == CHOOSE r \in 0 .. Dot(v, v) : r * r = Dot(v, v)

\* A float64 quotient: nan, or the fraction num / den with den > 0.
NaN == [nan |-> TRUE, num |-> 0, den |-> 1]
\* np.float64 division: 0.0 / 0.0 is nan (a RuntimeWarning, no exception)
Divide(num, den) == IF den = 0 THEN NaN ELSE [nan |-> FALSE, num |-> num, den |-> den]

cosine_similarity(embedding1, embedding2) ==
    Divide(Dot(embedding1, embedding2), Norm(embedding1) * Norm(embedding2))

distances_from_embeddings(query_embedding, embeddings_) ==
    [i \in DOMAIN embeddings_ |-> cosine_similarity(query_embedding, embeddings_[i])]

\* a < b on float64: every comparison with nan is False
ISLT(a, b) == ~a.nan /\ ~b.nan /\ a.num * b.den < b.num * a.den
\* a == b on float64
ScoreEq(a, b) == ~a.nan /\ ~b.nan /\ a.num * b.den = b.num * a.den

Reverse(seq) == [p \in 1 .. Len(seq) |-> seq[Len(seq) + 1 - p]]

\* list.sort of CPython 3.11 on fewer than 64 elements: count_run finds the
\* run at the head (reversed when strictly descending), binarysort inserts
\* the rest.  key maps an element to what is compared.
RECURSIVE count_run(_, _, _, _)
count_run(a, key, descending, n) ==
    IF n = Len(a) THEN n
    ELSE IF ISLT(key[a[n + 1]], key[a[n]]) = descending
         THEN count_run(a, key, descending, n + 1)
         ELSE n

\* the do-while of binarysort: where pivot goes in a[l+1 .. r]
RECURSIVE binary_search(_, _, _, _, _)
binary_search(a, key, pivot, l, r) ==
    LET p == l + ((r - l) \div 2)
        r2 == IF ISLT(key[pivot], key[a[p + 1]]) THEN p ELSE r
        l2 == IF ISLT(key[pivot], key[a[p + 1]]) THEN l ELSE p + 1
    IN IF l2 < r2 THEN binary_search(a, key, pivot, l2, r2) ELSE l2

RECURSIVE binarysort(_, _, _)
binarysort(a, key, start) ==
    IF start >= Len(a) THEN a
    ELSE LET pivot == a[start + 1]
             l == binary_search(a, key, pivot, 0, start)
             moved == SubSeq(a, 1, l) \o <<pivot>> \o SubSeq(a, l + 1, start)
                      \o SubSeq(a, start + 2, Len(a))
         IN binarysort(moved, key, start + 1)

sorted(a, key) ==
    IF Len(a) < 2 THEN a
    ELSE LET descending == ISLT(key[a[2]], key[a[1]])
             n == count_run(a, key, descending, 2)
             run == IF descending
                    THEN Reverse(SubSeq(a, 1, n)) \o SubSeq(a, n + 1, Len(a))
                    ELSE a
         IN binarysort(run, key, n)

\* range(len(distances)) as a list
RangeList(n) == [p \in 1 .. n |-> p - 1]

Ascending(distances_) == sorted(RangeList(Length(distances_)), distances_)
indices_of_closest_matches_from_distances(distances_) ==
    Reverse(sorted(RangeList(Length(distances_)), distances_))

\* line 309: skip any strings that are identical matches to the starting string
SkipSelfOnly(strings_, source, i) == i = source
Skip(strings_, source, i) == strings_[source] = strings_[i]

\* line 312: stop after printing out k articles
StopLate(k_counter, k) == k_counter > k
Stop(k_counter, k) == k_counter >= k

\* The for loop of lines 307-322 from position pos of the ranking on: the
\* indices it prints, after those in out.
RECURSIVE Walk(_, _, _, _, _, _)
Walk(ranking, strings_, source, k, pos, out) ==
    IF pos > Len(ranking) THEN out
    ELSE LET i == ranking[pos] IN
         IF Skip(strings_, source, i)
         THEN Walk(ranking, strings_, source, k, pos + 1, out)
         ELSE IF Stop(Len(out), k)
              THEN out
              ELSE Walk(ranking, strings_, source, k, pos + 1, Append(out, i))

IdleRank ==
    /\ strings = <<>>
    /\ embeddings = <<>>
    /\ index_of_source_string = 0
    /\ k_nearest_neighbors = 0
    /\ pc = "idle"
    /\ distances = <<>>
    /\ indices_of_nearest_neighbors = <<>>
    /\ printed = <<>>

\* A call print_recommendations_from_strings(strings, index, k) whose
\* embeddings (line 295) are any vectors embedding_from_string can return.
InitRank ==
    /\ \E n \in 1 .. MaxStrings :
         /\ strings \in [Range(n) -> Texts]
         /\ embeddings \in [Range(n) -> Vectors]
         /\ index_of_source_string \in Range(n)
    /\ k_nearest_neighbors \in 0 .. MaxK
    /\ pc = "start"
    /\ distances = <<>>
    /\ indices_of_nearest_neighbors = <<>>
    /\ printed = <<>>

\* lines 297-301
Rank ==
    /\ pc = "start"
    /\ distances' = distances_from_embeddings(embeddings[index_of_source_string],
                                              embeddings)
    /\ indices_of_nearest_neighbors' = indices_of_closest_matches_from_distances(distances')
    /\ pc' = "ranked"
    /\ UNCHANGED cacheVars
    /\ UNCHANGED <<strings, embeddings, index_of_source_string, k_nearest_neighbors,
                   printed>>

\* lines 304-324
Recommend ==
    /\ pc = "ranked"
    /\ printed' = Walk(indices_of_nearest_neighbors, strings, index_of_source_string,
                       k_nearest_neighbors, 1, <<>>)
    /\ pc' = "done"
    /\ UNCHANGED cacheVars
    /\ UNCHANGED <<strings, embeddings, index_of_source_string, k_nearest_neighbors,
                   distances, indices_of_nearest_neighbors>>

NextRank ==
    \/ Rank
    \/ Recommend

\* The cache cell and its callers, the ranker idle.
Init == InitCache /\ IdleRank
Spec == Init /\ [][Next]_vars

\* One call of print_recommendations_from_strings, the cache cell not run.
InitR == InitCache /\ InitRank
SpecRank == InitR /\ [][NextRank]_vars

(***************************************************************************)
(* Properties of the cache, checked under Spec                             *)
(***************************************************************************)

\* C1 as stated: over the whole execution, restarts on the same store file
\* included, get_embedding computes an embedding at most once for each
\* (text, model) key (calls that raise are not even counted).
AtMostOneComputationPerKeyEver == \A key \in Keys : calls.returned[key] <= 1

\* C1 amended: within one session get_embedding returns a vector at most
\* once per key, and it is never invoked for a key the session loaded from
\* the store file.
AtMostOneComputationPerSession ==
    \A key \in Keys :
        /\ session.returned[key] <= 1
        /\ key \in DOMAIN session.loaded => session.invoked[key] = 0

\* A restarted session serves a key from the store it loaded, the provider
\* having been asked once for it in an earlier session.
LoadedKeyServed ==
    /\ proc = "up"
    /\ last.outcome = "returned"
    /\ last.ext = 0
    /\ last.key \in DOMAIN session.loaded
    /\ calls.invoked[last.key] = 1

\* C2: two consecutive calls for one key on the same cache return the same
\* vector, and the second makes no call to get_embedding.
CacheIdempotence ==
    (prev.outcome = "returned" /\ last.outcome # "none" /\ last.key = prev.key)
        => (last.outcome = "returned" /\ last.value = prev.value /\ last.ext = 0)

\* A miss that computed and returned, followed by a call for the same key.
MissThenSameKey ==
    /\ prev.outcome = "returned"
    /\ prev.ext = 1
    /\ last.outcome = "returned"
    /\ last.key = prev.key

\* C3: while every store write of the session has succeeded the store file
\* holds exactly the in-memory dict, and a session started on the store a
\* session of completed calls left contains every entry of that session.
CrossSessionPersistence ==
    /\ (proc = "up" /\ ~session.write_failed)
           => (cache_file.st = "ok" /\ cache_file.dict = embedding_cache)
    /\ (proc = "up" /\ ended.clean)
           => \A key \in DOMAIN ended.dict :
                  key \in DOMAIN embedding_cache /\ embedding_cache[key] = ended.dict[key]

\* A fresh session that loaded the two entries an earlier session computed.
FreshSessionSeesEntries ==
    /\ proc = "up"
    /\ ended.clean
    /\ Cardinality(DOMAIN ended.dict) = 2
    /\ session.loaded = ended.dict
    /\ session.invoked = Zero

\* C9 as stated: a store file that is missing or corrupt when the cell
\* starts never makes the load fail (it is taken as the empty dict).
StartupToleratesUnreadableStore == proc # "read_failed"

\* C10: when the store write of a miss raises, the dict of the session holds
\* the new entry and every earlier one, and the next call for that key
\* returns the computed vector without a call to get_embedding.
PersistenceFailureKeepsMemory ==
    /\ last.outcome = "CachePersistenceError"
           => /\ \A key \in DOMAIN last.before :
                     key \in DOMAIN embedding_cache /\ embedding_cache[key] = last.before[key]
              /\ last.key \in DOMAIN embedding_cache
              /\ embedding_cache[last.key] = last.value
    /\ (prev.outcome = "CachePersistenceError" /\ last.outcome # "none"
            /\ last.key = prev.key)
           => (last.outcome = "returned" /\ last.value = prev.value /\ last.ext = 0)

\* A write failed on a miss in a session that already held an entry, the
\* store file lags behind, and the key was then asked for again.
ServedAfterFailedWrite ==
    /\ prev.outcome = "CachePersistenceError"
    /\ Cardinality(DOMAIN embedding_cache) >= 2
    /\ last.outcome = "returned"
    /\ last.key = prev.key
    /\ (cache_file.st = "corrupt" \/ last.key \notin DOMAIN cache_file.dict)

(***************************************************************************)
(* Properties of the ranker, checked under SpecRank                        *)
(***************************************************************************)
Ranked == pc \in {"ranked", "done"}
NonZero == \A i \in DOMAIN embeddings : embeddings[i] # <<0, 0>>
\* position of index i in the ranking
Pos(i) == CHOOSE p \in 1 .. Len(indices_of_nearest_neighbors) :
              indices_of_nearest_neighbors[p] = i
IsPermutation ==
    /\ Len(indices_of_nearest_neighbors) = Length(embeddings)
    /\ \A i \in DOMAIN embeddings :
           \E p \in 1 .. Len(indices_of_nearest_neighbors) :
               indices_of_nearest_neighbors[p] = i
NonIncreasing ==
    \A p1, p2 \in 1 .. Len(indices_of_nearest_neighbors) :
        p1 < p2 => ~ISLT(distances[indices_of_nearest_neighbors[p1]],
                         distances[indices_of_nearest_neighbors[p2]])

\* C4 as stated: on non-zero embeddings the ranking is in non-increasing
\* score order and its first element is the query index.
RankingOrderQueryFirst ==
    (Ranked /\ NonZero)
        => /\ IsPermutation
           /\ NonIncreasing
           /\ indices_of_nearest_neighbors[1] = index_of_source_string

\* C4 amended: on non-zero embeddings the ranking holds every index in
\* non-increasing score order, and whatever is ranked ahead of the query
\* index has the query's own score and a higher index.
RankingOrderQueryMaximal ==
    (Ranked /\ NonZero)
        => /\ IsPermutation
           /\ NonIncreasing
           /\ \A i \in DOMAIN embeddings :
                  Pos(i) < Pos(index_of_source_string)
                      => /\ ScoreEq(distances[i], distances[index_of_source_string])
                         /\ i > index_of_source_string

\* A ranking of three non-zero embeddings in which an index is ranked
\* ahead of the query index and another scores strictly lower.
QueryNotFirst ==
    /\ Ranked
    /\ NonZero
    /\ Length(embeddings) = 3
    /\ indices_of_nearest_neighbors[1] # index_of_source_string
    /\ \E i \in DOMAIN embeddings :
           ISLT(distances[i], distances[index_of_source_string])

\* C5 as stated: of two indices with equal score the lower one is ranked
\* first.
TieLowerIndexFirst ==
    Ranked => \A i, j \in DOMAIN embeddings :
                  (i < j /\ ScoreEq(distances[i], distances[j])) => Pos(i) < Pos(j)

\* C5 amended: of two indices with equal score the higher one is ranked
\* first, when every score is defined (no zero embedding).
TieHigherIndexFirst ==
    (Ranked /\ NonZero)
        => \A i, j \in DOMAIN embeddings :
               (i < j /\ ScoreEq(distances[i], distances[j])) => Pos(j) < Pos(i)

\* Two indices of different embeddings tie below the query's score.
RankedWithTie ==
    /\ Ranked
    /\ NonZero
    /\ \E i, j \in DOMAIN embeddings :
           /\ i < j
           /\ embeddings[i] # embeddings[j]
           /\ ScoreEq(distances[i], distances[j])
           /\ ISLT(distances[i], distances[index_of_source_string])

\* C6: no printed recommendation is the query index or an index whose text
\* equals the query text; on ["A", "A", "B"], query 0, k = 1 the walk prints
\* index 2.
DuplicateExclusion ==
    pc = "done"
        => /\ \A p \in 1 .. Len(printed) :
                  /\ printed[p] # index_of_source_string
                  /\ strings[printed[p]] # strings[index_of_source_string]
           /\ (/\ strings = [i \in Range(3) |-> IF i = 2 THEN "B" ELSE "A"]
               /\ index_of_source_string = 0
               /\ k_nearest_neighbors = 1) => printed = <<2>>

\* The corpus ["A", "A", "B"] with the duplicate ranked ahead of index 2.
DuplicateRankedAhead ==
    /\ pc = "done"
    /\ strings = [i \in Range(3) |-> IF i = 2 THEN "B" ELSE "A"]
    /\ index_of_source_string = 0
    /\ k_nearest_neighbors = 1
    /\ indices_of_nearest_neighbors = <<1, 0, 2>>
    /\ printed = <<2>>

Candidates == {i \in DOMAIN strings : strings[i] # strings[index_of_source_string]}
IsCandidate(i) == i \in Candidates
Min(a, b) == IF a < b THEN a ELSE b

\* C7: the walk prints exactly min(k, m) indices, m the number of indices
\* whose text differs from the query text: the first min(k, m) of them in
\* ranking order.
KTruncation ==
    pc = "done"
        => LET qualifying == SelectSeq(indices_of_nearest_neighbors, IsCandidate)
               m == Cardinality(Candidates)
           IN /\ Len(qualifying) = m
              /\ Len(printed) = Min(k_nearest_neighbors, m)
              /\ printed = SubSeq(qualifying, 1, Min(k_nearest_neighbors, m))

\* Fewer candidates than k: one candidate, k = 3, one index printed.
FewerCandidatesThanK ==
    /\ pc = "done"
    /\ Cardinality(Candidates) = 1
    /\ Length(strings) = 3
    /\ k_nearest_neighbors = 3
    /\ Len(printed) = 1

\* C8 as stated: with a zero-norm embedding among the inputs, rank raises
\* and no ranking is produced.
DegenerateInputRaises == (~NonZero) => ~Ranked

====
